---- MODULE Spec2Model ----
(***************************************************************************)
(* Model of the sample-analytics pipeline: CSVAppCodeFilter                *)
(* (app_filter.py), the data model helpers (data_models.py),               *)
(* DataAnalysisService and its chart generator and writer                  *)
(* (data_processors.py) and main() (analyze_data_solid.py).                *)
(* Spec is a run of main(), with or without a filter; SpecUnit is one      *)
(* direct call of a component on a record list built by hand.              *)
(*                                                                         *)
(* Representation.  An AppCode is a sequence of one-character strings, so  *)
(* that str.strip() and the string order used by list.sort are computed.   *)
(* Floats are exact rationals: a score weight and a risk score are kept in *)
(* tenths (3.0 is 30, 2.5 is 25), a percentage is a reduced fraction       *)
(* [num, den].  A dict that is only looked up is a function; a dict whose  *)
(* insertion order is used (unique_records) is a sequence of records.      *)
(***************************************************************************)
EXTENDS Integers, Sequences, FiniteSets, TLC

\* ------------------------------------------------------------------ bounds
\* Longest sampleData.csv (data rows) the reader returns.
MaxRows == 3
\* Longest Apps.csv (data rows) the filter loads.
MaxAppsRows == 1
\* Longest record list handed directly to RiskCalculator, the chart
\* generator or the writer.
MaxUnitRows == 3

\* ------------------------------------------------------------------ inputs
\* Characters of an AppCode; " " and the tab are what str.strip() removes.
Whitespace == {" ", "\t"}

\* AppCode column values of sampleData.csv and of Apps.csv.
AppCodeValues == { <<"A">>, <<" ", "A">>, <<"B">> }
AppsFileValues == { <<"A">>, <<"A", " ">>, <<"B">>, <<" ">> }

\* CompositeScore column values: the four mapped labels, an unknown one, and
\* a case variant and an untrimmed variant of a mapped one.
Labels ==
    {"High", "Moderate High", "Moderate", "Low", "Critical", "high", " High"}

\* The labels used where the AppCode varies: two mapped, one unknown.
FewLabels == {"High", "Moderate High", "Critical"}

\* Code points of the characters, for the order of str.
ord(c) == CASE c = "\t" -> 9 [] c = " " -> 32 [] c = "A" -> 65 [] c = "B" -> 66

\* Sequences over S of length at most n.
SeqUpTo(S, n) == UNION { [1..k -> S] : k \in 0..n }

\* ------------------------------------------------------------- str helpers
RECURSIVE lstrip(_)
lstrip(s) == IF s # <<>> /\ Head(s) \in Whitespace THEN lstrip(Tail(s)) ELSE s

RECURSIVE rstrip(_)
rstrip(s) ==
    IF s # <<>> /\ s[Len(s)] \in Whitespace
    THEN rstrip(SubSeq(s, 1, Len(s) - 1))
    ELSE s

\* str.strip(): leading and trailing whitespace removed.
strip(s) == rstrip(lstrip(s))

\* s < t in Python's order of str (lexicographic by code point).
RECURSIVE str_lt(_, _)
str_lt(s, t) ==
    IF t = <<>> THEN FALSE
    ELSE IF s = <<>> THEN TRUE
    ELSE IF ord(Head(s)) # ord(Head(t)) THEN ord(Head(s)) < ord(Head(t))
    ELSE str_lt(Tail(s), Tail(t))

\* ------------------------------------------------------------ data_models
\* InfrastructureRecord.from_dict: the four columns of a row, the derived
\* fields at their dataclass defaults.
from_dict(data) ==
    [ application_service |-> data.ApplicationService,
      app_code |-> data.AppCode,
      composite_score |-> data.CompositeScore,
      class_type |-> data.Class,
      total_infrastructure |-> 0,
      composite_score_number |-> 0,
      composite_risk_score |-> 0,
      composite_risk_score_percent |-> [num |-> 0, den |-> 1] ]

\* Rows csv.DictReader yields for sampleData.csv: the AppCode varies over
\* few labels, or the label varies over one AppCode.
DataRows ==
    [ ApplicationService : {"S1"}, AppCode : AppCodeValues,
      CompositeScore : FewLabels, Class : {"Server"} ]

LabelRows ==
    [ ApplicationService : {"S1"}, AppCode : { <<"A">> },
      CompositeScore : Labels, Class : {"Server"} ]

\* Contents of sampleData.csv.
DataFiles == SeqUpTo(DataRows, MaxRows) \cup SeqUpTo(LabelRows, MaxRows)

\* CompositeScoreMapper.SCORE_MAPPING, in tenths.
SCORE_MAPPING ==
    [ l \in {"High", "Moderate High", "Moderate", "Low"} |->
        CASE l = "High" -> 30
          [] l = "Moderate High" -> 25
          [] l = "Moderate" -> 20
          [] l = "Low" -> 10 ]

\* map_to_number looking the label up without regard to case.
map_to_number_caseless(score) ==
    IF score \in DOMAIN SCORE_MAPPING THEN SCORE_MAPPING[score]
    ELSE IF score = "high" THEN SCORE_MAPPING["High"] ELSE 0

\* CompositeScoreMapper.map_to_number: SCORE_MAPPING.get(score, 0.0).
map_to_number(score) ==
    IF score \in DOMAIN SCORE_MAPPING THEN SCORE_MAPPING[score] ELSE 0

\* count_appcodes counting each AppCode once, as over deduplicated records.
count_appcodes_unique(recs) ==
    [ c \in { recs[i].app_code : i \in DOMAIN recs } |-> 1 ]

\* AppCodeCounter.count_appcodes: a dict AppCode -> number of records.
count_appcodes(recs) ==
    [ c \in { recs[i].app_code : i \in DOMAIN recs } |->
        Cardinality({ i \in DOMAIN recs : recs[i].app_code = c }) ]

RECURSIVE SumRisk(_)
SumRisk(recs) ==
    IF recs = <<>> THEN 0
    ELSE Head(recs).composite_risk_score + SumRisk(Tail(recs))

RECURSIVE gcd(_, _)
gcd(a, b) == IF b = 0 THEN a ELSE gcd(b, a % b)

\* The float (a / b) * 100 as a reduced fraction.
percent_of(a, b) ==
    LET g == gcd(a * 100, b)
    IN  [num |-> (a * 100) \div g, den |-> b \div g]

\* RiskCalculator.calculate_risk_scores.
calculate_risk_scores(recs) ==
    [ i \in DOMAIN recs |->
        [ recs[i] EXCEPT !.composite_risk_score =
            recs[i].composite_score_number * recs[i].total_infrastructure ] ]

\* calculate_risk_percentages without the factor 100: a share of 1.
calculate_risk_percentages_as_fraction(recs) ==
    LET total_risk == SumRisk(recs)
    IN  [ i \in DOMAIN recs |->
            [ recs[i] EXCEPT !.composite_risk_score_percent =
                IF total_risk > 0
                THEN LET g == gcd(recs[i].composite_risk_score, total_risk)
                     IN  [ num |-> recs[i].composite_risk_score \div g,
                           den |-> total_risk \div g ]
                ELSE [num |-> 0, den |-> 1] ] ]

\* calculate_risk_percentages doing nothing when the total is zero.
calculate_risk_percentages_skip_zero_total(recs) ==
    LET total_risk == SumRisk(recs)
    IN  [ i \in DOMAIN recs |->
            [ recs[i] EXCEPT !.composite_risk_score_percent =
                IF total_risk > 0
                THEN percent_of(recs[i].composite_risk_score, total_risk)
                ELSE recs[i].composite_risk_score_percent ] ]

\* calculate_risk_percentages dividing by the first record's score instead
\* of the total.
calculate_risk_percentages_against_first(recs) ==
    LET total_risk == IF recs = <<>> THEN 0 ELSE recs[1].composite_risk_score
    IN  [ i \in DOMAIN recs |->
            [ recs[i] EXCEPT !.composite_risk_score_percent =
                IF total_risk > 0
                THEN percent_of(recs[i].composite_risk_score, total_risk)
                ELSE [num |-> 0, den |-> 1] ] ]

\* RiskCalculator.calculate_risk_percentages.
calculate_risk_percentages(recs) ==
    LET total_risk == SumRisk(recs)
    IN  [ i \in DOMAIN recs |->
            [ recs[i] EXCEPT !.composite_risk_score_percent =
                IF total_risk > 0
                THEN percent_of(recs[i].composite_risk_score, total_risk)
                ELSE [num |-> 0, den |-> 1] ] ]

\* ------------------------------------------------------------- app_filter
\* load_allowed_appcodes adding the column value as read, not stripped.
loaded_appcodes_untrimmed(rows) ==
    { rows[i] : i \in { j \in DOMAIN rows : strip(rows[j]) # <<>> } }

\* CSVAppCodeFilter.load_allowed_appcodes, the set built from the rows.
loaded_appcodes(rows) ==
    { strip(rows[i]) : i \in { j \in DOMAIN rows : strip(rows[j]) # <<>> } }

\* is_allowed comparing the identifier as given, without strip().
is_allowed_unstripped(allowed, app_code) ==
    IF allowed = {} THEN TRUE ELSE app_code \in allowed

\* is_allowed without the allow-all default of an empty set.
is_allowed_no_default(allowed, app_code) == strip(app_code) \in allowed

\* CSVAppCodeFilter.is_allowed on a filter holding the set allowed.
is_allowed(allowed, app_code) ==
    IF allowed = {} THEN TRUE ELSE strip(app_code) \in allowed

\* ------------------------------------------------------- analyze_data steps
\* The first-occurrence loop: unique_records in insertion order.
RECURSIVE first_occurrences(_, _)
first_occurrences(recs, acc) ==
    IF recs = <<>> THEN acc
    ELSE first_occurrences(
            Tail(recs),
            IF \E i \in DOMAIN acc : acc[i].app_code = Head(recs).app_code
            THEN acc
            ELSE Append(acc, Head(recs)))

\* The loop overwriting on every row: the last record of each AppCode, at
\* the position of the first.
RECURSIVE last_occurrences(_, _)
last_occurrences(recs, acc) ==
    IF recs = <<>> THEN acc
    ELSE last_occurrences(
            Tail(recs),
            IF \E i \in DOMAIN acc : acc[i].app_code = Head(recs).app_code
            THEN [ i \in DOMAIN acc |->
                     IF acc[i].app_code = Head(recs).app_code
                     THEN Head(recs) ELSE acc[i] ]
            ELSE Append(acc, Head(recs)))

\* The loop dropping a row only when the row before it carries the same
\* AppCode.
RECURSIVE adjacent_occurrences(_, _)
adjacent_occurrences(recs, acc) ==
    IF recs = <<>> THEN acc
    ELSE adjacent_occurrences(
            Tail(recs),
            IF acc # <<>> /\ acc[Len(acc)].app_code = Head(recs).app_code
            THEN acc
            ELSE Append(acc, Head(recs)))

unique_by_app_code_adjacent(recs) == adjacent_occurrences(recs, <<>>)

unique_by_app_code_last(recs) == last_occurrences(recs, <<>>)

\* The loop of analyze_data that keeps the first record of each AppCode.
unique_by_app_code(recs) == first_occurrences(recs, <<>>)

\* The filtering loop over unique_records.items().
filter_records(recs, allowed) ==
    SelectSeq(recs, LAMBDA r : is_allowed(allowed, r.app_code))

\* The counts left as tallied, not filtered.
filter_counts_skipped(counts, allowed) == counts

\* The filtering loop over appcode_counts.items().
filter_counts(counts, allowed) ==
    [ c \in { k \in DOMAIN counts : is_allowed(allowed, k) } |-> counts[c] ]

\* The first loop of _enhance_records.
assign_counts(recs, counts) ==
    [ i \in DOMAIN recs |->
        [ recs[i] EXCEPT
            !.total_infrastructure = counts[recs[i].app_code],
            !.composite_score_number = map_to_number(recs[i].composite_score) ] ]

\* _enhance_records computing the risk scores before the counts and score
\* numbers are assigned.
enhance_records_scores_first(recs, counts) ==
    calculate_risk_percentages(assign_counts(calculate_risk_scores(recs), counts))

\* DataAnalysisService._enhance_records.
enhance_records(recs, counts) ==
    calculate_risk_percentages(calculate_risk_scores(assign_counts(recs, counts)))

\* list.sort(key=lambda x: x.app_code): stable insertion by ascending key.
RECURSIVE insert_by_app_code(_, _)
insert_by_app_code(sorted, r) ==
    IF sorted = <<>> THEN <<r>>
    ELSE IF str_lt(r.app_code, sorted[Len(sorted)].app_code)
         THEN Append(insert_by_app_code(SubSeq(sorted, 1, Len(sorted) - 1), r),
                     sorted[Len(sorted)])
         ELSE Append(sorted, r)

RECURSIVE sort_by_app_code(_)
sort_by_app_code(recs) ==
    IF recs = <<>> THEN <<>>
    ELSE insert_by_app_code(
            sort_by_app_code(SubSeq(recs, 1, Len(recs) - 1)), recs[Len(recs)])

\* ------------------------------------------------------- chart and sink
\* a < b for two percentages (fractions with positive denominators).
pct_lt(a, b) == a.num * b.den < b.num * a.den

\* sorted(records, key=percent, reverse=True): stable, so records of equal
\* percent keep their order; r goes behind every record it does not exceed.
RECURSIVE insert_by_percent(_, _)
insert_by_percent(sorted, r) ==
    IF sorted = <<>> THEN <<r>>
    ELSE IF pct_lt(sorted[Len(sorted)].composite_risk_score_percent,
                   r.composite_risk_score_percent)
         THEN Append(insert_by_percent(SubSeq(sorted, 1, Len(sorted) - 1), r),
                     sorted[Len(sorted)])
         ELSE Append(sorted, r)

RECURSIVE sorted_by_percent(_)
sorted_by_percent(recs) ==
    IF recs = <<>> THEN <<>>
    ELSE insert_by_percent(
            sorted_by_percent(SubSeq(recs, 1, Len(recs) - 1)), recs[Len(recs)])

\* The sort putting r before the records of equal percent: ties reversed.
RECURSIVE insert_by_percent_before_ties(_, _)
insert_by_percent_before_ties(sorted, r) ==
    IF sorted = <<>> THEN <<r>>
    ELSE IF ~pct_lt(r.composite_risk_score_percent,
                    sorted[Len(sorted)].composite_risk_score_percent)
         THEN Append(insert_by_percent_before_ties(
                        SubSeq(sorted, 1, Len(sorted) - 1), r),
                     sorted[Len(sorted)])
         ELSE Append(sorted, r)

RECURSIVE sorted_by_percent_unstable(_)
sorted_by_percent_unstable(recs) ==
    IF recs = <<>> THEN <<>>
    ELSE insert_by_percent_before_ties(
            sorted_by_percent_unstable(SubSeq(recs, 1, Len(recs) - 1)),
            recs[Len(recs)])

\* RiskChartEntry(rank, app_code, composite_risk_score,
\* composite_risk_score_percent) built from a record.
RiskChartEntry(rank, record) ==
    [ rank |-> rank,
      app_code |-> record.app_code,
      composite_risk_score |-> record.composite_risk_score,
      composite_risk_score_percent |-> record.composite_risk_score_percent ]

\* generate_chart with enumerate(sorted_records) counting from 0.
generate_chart_rank_from_zero(recs) ==
    LET sorted_records == sorted_by_percent(recs)
    IN  [ i \in DOMAIN sorted_records |-> RiskChartEntry(i - 1, sorted_records[i]) ]

\* generate_chart with a sort that does not keep the order of ties.
generate_chart_unstable(recs) ==
    LET sorted_records == sorted_by_percent_unstable(recs)
    IN  [ i \in DOMAIN sorted_records |-> RiskChartEntry(i, sorted_records[i]) ]

\* RiskChartGenerator.generate_chart.
generate_chart(recs) ==
    LET sorted_records == sorted_by_percent(recs)
    IN  [ i \in DOMAIN sorted_records |-> RiskChartEntry(i, sorted_records[i]) ]

\* InfrastructureRecord.to_dict, and its keys in their order.
to_dict(r) ==
    [ ApplicationService |-> r.application_service,
      AppCode |-> r.app_code,
      CompositeScore |-> r.composite_score,
      Class |-> r.class_type,
      TotalInfrastructure |-> r.total_infrastructure,
      CompositeScoreNumber |-> r.composite_score_number,
      CompositeRiskScore |-> r.composite_risk_score,
      CompositeRiskScorePercent |-> r.composite_risk_score_percent ]

to_dict_keys ==
    << "ApplicationService", "AppCode", "CompositeScore", "Class",
       "TotalInfrastructure", "CompositeScoreNumber", "CompositeRiskScore",
       "CompositeRiskScorePercent" >>

\* CSVDataWriter.write_data(records, destination): the file at the
\* destination afterwards, old being the file before; nothing is written
\* for an empty list.
write_data(recs, old) ==
    IF recs = <<>> THEN old
    ELSE [ exists |-> TRUE,
           fieldnames |-> to_dict_keys,
           rows |-> [ i \in DOMAIN recs |-> to_dict(recs[i]) ] ]

\* Parameter names of CSVDataWriter.write_data and of
\* DataAnalysisService.save_enhanced_data, self apart.
write_data_params == {"records", "destination"}
save_enhanced_data_params == {"records", "destination"}

\* Python binds a call only if every keyword names a parameter; otherwise
\* the call raises TypeError before the body runs.
binds(params, kwargs) == kwargs \subseteq params

\* Keyword arguments of main's call of save_enhanced_data.
main_save_kwargs == {"exclude_appcode"}

\* ------------------------------------------------------------------ state
VARIABLES
    pc,                 \* position of the run
    allowed_appcodes,   \* CSVAppCodeFilter.allowed_appcodes
    last_load,          \* outcome of the latest load_allowed_appcodes call
    app_filter,         \* DataAnalysisService.app_filter: "None" or "filter"
    records,            \* analyze_data: records, as read
    unique_records,     \* analyze_data: unique_records, in insertion order
    appcode_counts,     \* analyze_data: appcode_counts
    unique_record_list, \* analyze_data: unique_record_list
    is_allowed_calls,   \* number of is_allowed calls made by analyze_data
    result,             \* what analyze_data returned: <<records, counts>>
    chart_entries,      \* what generate_chart returned
    written,            \* the file CSVDataWriter.write_data wrote, if any
    sink_call           \* the latest call of write_data or save_enhanced_data

vars == << pc, allowed_appcodes, last_load, app_filter, records, unique_records,
           appcode_counts, unique_record_list, is_allowed_calls, result,
           chart_entries, written, sink_call >>

NoCounts == [ c \in {} |-> 0 ]

\* No file at the destination.
NoFile == [ exists |-> FALSE, fieldnames |-> <<>>, rows |-> <<>> ]

\* Neither write_data nor save_enhanced_data has been called.
NoCall == [ callee |-> "none", kwargs |-> {} ]

Init ==
    /\ pc = "init"
    /\ allowed_appcodes = {}
    /\ last_load = "none"
    /\ app_filter = "None"
    /\ records = <<>>
    /\ unique_records = <<>>
    /\ appcode_counts = NoCounts
    /\ unique_record_list = <<>>
    /\ is_allowed_calls = 0
    /\ result = << <<>>, NoCounts >>
    /\ chart_entries = <<>>
    /\ written = NoFile
    /\ sink_call = NoCall

\* load_allowed_appcodes(source), source readable: the set is replaced.
LoadAllowedAppcodes ==
    /\ pc = "init"
    /\ \E rows \in SeqUpTo(AppsFileValues, MaxAppsRows) :
          allowed_appcodes' = loaded_appcodes(rows)
    /\ last_load' = "loaded"
    /\ UNCHANGED << pc, app_filter, records, unique_records, appcode_counts,
                    unique_record_list, is_allowed_calls, result >>
    /\ UNCHANGED << chart_entries, written, sink_call >>

\* load_allowed_appcodes(source), source missing or unreadable: the except
\* branches return set() and assign nothing.
LoadAllowedAppcodesFails ==
    /\ pc = "init"
    /\ last_load' = "failed"
    /\ UNCHANGED << pc, allowed_appcodes, app_filter, records, unique_records,
                    appcode_counts, unique_record_list, is_allowed_calls, result >>
    /\ UNCHANGED << chart_entries, written, sink_call >>

\* DataAnalysisService(..., app_filter=f), f the filter object or None.
CreateService ==
    /\ pc = "init"
    /\ app_filter' \in {"None", "filter"}
    /\ pc' = "read"
    /\ UNCHANGED << allowed_appcodes, last_load, records, unique_records,
                    appcode_counts, unique_record_list, is_allowed_calls, result >>
    /\ UNCHANGED << chart_entries, written, sink_call >>

\* analyze_data going on to the later steps whatever read_data returned.
ReadDataNoEarlyReturn ==
    /\ pc = "read"
    /\ \E rows \in DataFiles :
          records' = [ i \in DOMAIN rows |-> from_dict(rows[i]) ]
    /\ pc' = "dedup"
    /\ UNCHANGED << allowed_appcodes, last_load, app_filter, unique_records,
                    appcode_counts, unique_record_list, is_allowed_calls, result >>
    /\ UNCHANGED << chart_entries, written, sink_call >>

\* analyze_data: read_data, and the early return on no records.
ReadData ==
    /\ pc = "read"
    /\ \E rows \in DataFiles :
          records' = [ i \in DOMAIN rows |-> from_dict(rows[i]) ]
    /\ IF records' = <<>>
       THEN /\ result' = << <<>>, NoCounts >>
            /\ pc' = "returned"
       ELSE /\ result' = result
            /\ pc' = "dedup"
    /\ UNCHANGED << allowed_appcodes, last_load, app_filter, unique_records,
                    appcode_counts, unique_record_list, is_allowed_calls >>
    /\ UNCHANGED << chart_entries, written, sink_call >>

\* analyze_data keeping every record, the first-occurrence loop left out.
DeduplicateKeepsAll ==
    /\ pc = "dedup"
    /\ unique_records' = records
    /\ pc' = "filter"
    /\ UNCHANGED << allowed_appcodes, last_load, app_filter, records,
                    appcode_counts, unique_record_list, is_allowed_calls, result >>
    /\ UNCHANGED << chart_entries, written, sink_call >>

\* analyze_data: unique records by AppCode (first occurrence).
Deduplicate ==
    /\ pc = "dedup"
    /\ unique_records' = unique_by_app_code(records)
    /\ pc' = "filter"
    /\ UNCHANGED << allowed_appcodes, last_load, app_filter, records,
                    appcode_counts, unique_record_list, is_allowed_calls, result >>
    /\ UNCHANGED << chart_entries, written, sink_call >>

\* analyze_data: apply the AppCode filter if configured.
ApplyFilter ==
    /\ pc = "filter"
    /\ IF app_filter # "None"
       THEN /\ unique_records' = filter_records(unique_records, allowed_appcodes)
            /\ is_allowed_calls' = is_allowed_calls + Len(unique_records)
       ELSE UNCHANGED << unique_records, is_allowed_calls >>
    /\ pc' = "count"
    /\ UNCHANGED << allowed_appcodes, last_load, app_filter, records,
                    appcode_counts, unique_record_list, result >>
    /\ UNCHANGED << chart_entries, written, sink_call >>

\* analyze_data: count AppCodes over all records, filter the counts, and
\* build unique_record_list.
CountAppcodes ==
    /\ pc = "count"
    /\ LET counts == count_appcodes(records)
       IN  IF app_filter # "None"
           THEN /\ appcode_counts' = filter_counts(counts, allowed_appcodes)
                /\ is_allowed_calls' = is_allowed_calls + Cardinality(DOMAIN counts)
           ELSE /\ appcode_counts' = counts
                /\ is_allowed_calls' = is_allowed_calls
    /\ unique_record_list' = unique_records
    /\ pc' = "enhance"
    /\ UNCHANGED << allowed_appcodes, last_load, app_filter, records,
                    unique_records, result >>
    /\ UNCHANGED << chart_entries, written, sink_call >>

\* analyze_data: _enhance_records; a missing key raises KeyError.
EnhanceRecords ==
    /\ pc = "enhance"
    /\ IF \A i \in DOMAIN unique_record_list :
            unique_record_list[i].app_code \in DOMAIN appcode_counts
       THEN /\ unique_record_list' =
                    enhance_records(unique_record_list, appcode_counts)
            /\ pc' = "sort"
       ELSE /\ unique_record_list' = unique_record_list
            /\ pc' = "KeyError"
    /\ UNCHANGED << allowed_appcodes, last_load, app_filter, records,
                    unique_records, appcode_counts, is_allowed_calls, result >>
    /\ UNCHANGED << chart_entries, written, sink_call >>

\* analyze_data returning the list in insertion order, the sort left out.
ReturnUnsorted ==
    /\ pc = "sort"
    /\ unique_record_list' = unique_record_list
    /\ result' = << unique_record_list', appcode_counts >>
    /\ pc' = "returned"
    /\ UNCHANGED << allowed_appcodes, last_load, app_filter, records,
                    unique_records, appcode_counts, is_allowed_calls >>
    /\ UNCHANGED << chart_entries, written, sink_call >>

\* analyze_data sorting by AppCode in descending order (reverse=True).
SortAndReturnDescending ==
    /\ pc = "sort"
    /\ unique_record_list' =
          LET asc == sort_by_app_code(unique_record_list)
          IN  [ i \in DOMAIN asc |-> asc[Len(asc) + 1 - i] ]
    /\ result' = << unique_record_list', appcode_counts >>
    /\ pc' = "returned"
    /\ UNCHANGED << allowed_appcodes, last_load, app_filter, records,
                    unique_records, appcode_counts, is_allowed_calls >>
    /\ UNCHANGED << chart_entries, written, sink_call >>

\* analyze_data: sort by AppCode and return.
SortAndReturn ==
    /\ pc = "sort"
    /\ unique_record_list' = sort_by_app_code(unique_record_list)
    /\ result' = << unique_record_list', appcode_counts >>
    /\ pc' = "returned"
    /\ UNCHANGED << allowed_appcodes, last_load, app_filter, records,
                    unique_records, appcode_counts, is_allowed_calls >>
    /\ UNCHANGED << chart_entries, written, sink_call >>

\* main: "No data to analyze" and sys.exit(1) when the list is empty.
MainCheck ==
    /\ pc = "returned"
    /\ pc' = IF result[1] = <<>> THEN "exit_no_data" ELSE "report"
    /\ UNCHANGED << allowed_appcodes, last_load, app_filter, records,
                    unique_records, appcode_counts, unique_record_list,
                    is_allowed_calls, result >>
    /\ UNCHANGED << chart_entries, written, sink_call >>

\* generate_full_report with a chart generator that sorts the list it is
\* given in place (records.sort) instead of building a new one (sorted).
GenerateFullReportSortsInPlace ==
    /\ pc = "report"
    /\ result' = << sorted_by_percent(result[1]), result[2] >>
    /\ unique_record_list' = result'[1]
    /\ chart_entries' = generate_chart(result[1])
    /\ pc' = "save"
    /\ UNCHANGED << allowed_appcodes, last_load, app_filter, records,
                    unique_records, appcode_counts, is_allowed_calls,
                    written, sink_call >>

\* generate_full_report: the report is printed, the chart generated from
\* the records analyze_data returned, displayed and written to its file.
GenerateFullReport ==
    /\ pc = "report"
    /\ chart_entries' = generate_chart(result[1])
    /\ pc' = "save"
    /\ UNCHANGED << allowed_appcodes, last_load, app_filter, records,
                    unique_records, appcode_counts, unique_record_list,
                    is_allowed_calls, result, written, sink_call >>

\* main: save_enhanced_data(enhanced_records, 'analyzed_data.csv',
\* exclude_appcode=True), then display_sample_data, which only prints.
MainSaveAndDisplay ==
    /\ pc = "save"
    /\ sink_call' = [ callee |-> "save_enhanced_data", kwargs |-> main_save_kwargs ]
    /\ IF binds(save_enhanced_data_params, main_save_kwargs)
       THEN /\ written' = write_data(result[1], written)
            /\ pc' = "done"
       ELSE /\ written' = written
            /\ pc' = "TypeError"
    /\ UNCHANGED << allowed_appcodes, last_load, app_filter, records,
                    unique_records, appcode_counts, unique_record_list,
                    is_allowed_calls, result, chart_entries >>

Next ==
    \/ LoadAllowedAppcodes
    \/ LoadAllowedAppcodesFails
    \/ CreateService
    \/ ReadData
    \/ Deduplicate
    \/ ApplyFilter
    \/ CountAppcodes
    \/ EnhanceRecords
    \/ SortAndReturn
    \/ MainCheck
    \/ GenerateFullReport
    \/ MainSaveAndDisplay

Spec == Init /\ [][Next]_vars

\* ------------------------------------------------------------ direct calls
\* The components called directly on a record list, as the unit tests do:
\* the list is built with its derived fields set by hand.
UnitRecords ==
    [ application_service : {"S1"},
      app_code : { <<"A">>, <<"B">> },
      composite_score : {"High", "Low"},
      class_type : {"Server"},
      total_infrastructure : {1},
      composite_score_number : {30},
      composite_risk_score : {0, 30},
      composite_risk_score_percent : { [num |-> 0, den |-> 1], [num |-> 50, den |-> 1] } ]

\* The attributes of class RiskCalculator.
RiskCalculator_methods == {"calculate_risk_scores", "calculate_risk_percentages"}

\* records is the list as built, unique_record_list the same list object,
\* which RiskCalculator changes in place.
InitUnit ==
    /\ pc = "unit"
    /\ allowed_appcodes = {}
    /\ last_load = "none"
    /\ app_filter = "None"
    /\ records \in SeqUpTo(UnitRecords, MaxUnitRows)
    /\ unique_records = <<>>
    /\ appcode_counts = NoCounts
    /\ unique_record_list = records
    /\ is_allowed_calls = 0
    /\ result = << <<>>, NoCounts >>
    /\ chart_entries = <<>>
    /\ written = NoFile
    /\ sink_call = NoCall

\* RiskCalculator.calculate_risk_percentages(records).
UnitCalculateRiskPercentages ==
    /\ pc = "unit"
    /\ unique_record_list' = calculate_risk_percentages(unique_record_list)
    /\ pc' = "unit_percentages"
    /\ UNCHANGED << allowed_appcodes, last_load, app_filter, records,
                    unique_records, appcode_counts, is_allowed_calls, result,
                    chart_entries, written, sink_call >>

\* RiskCalculator.calculate_risk_percentages_by_group(records): the class
\* has no such attribute, the lookup raises AttributeError.
UnitCalculateRiskPercentagesByGroup ==
    /\ pc = "unit"
    /\ "calculate_risk_percentages_by_group" \notin RiskCalculator_methods
    /\ pc' = "AttributeError"
    /\ UNCHANGED << allowed_appcodes, last_load, app_filter, records,
                    unique_records, appcode_counts, unique_record_list,
                    is_allowed_calls, result, chart_entries, written, sink_call >>

\* RiskChartGenerator().generate_chart(records).
UnitGenerateChart ==
    /\ pc = "unit"
    /\ chart_entries' = generate_chart(unique_record_list)
    /\ pc' = "unit_chart"
    /\ UNCHANGED << allowed_appcodes, last_load, app_filter, records,
                    unique_records, appcode_counts, unique_record_list,
                    is_allowed_calls, result, written, sink_call >>

\* writer.write_data(records, destination[, exclude_appcode=True]) and
\* service.save_enhanced_data(records, destination[, exclude_appcode=True]),
\* the second passing its two parameters on to the first.
UnitSinkCall ==
    /\ pc = "unit"
    /\ \E callee \in {"write_data", "save_enhanced_data"} :
       \E kwargs \in { {}, {"exclude_appcode"} } :
          /\ sink_call' = [ callee |-> callee, kwargs |-> kwargs ]
          /\ IF binds(IF callee = "write_data" THEN write_data_params
                      ELSE save_enhanced_data_params, kwargs)
             THEN /\ written' = write_data(unique_record_list, written)
                  /\ pc' = "unit_written"
             ELSE /\ written' = written
                  /\ pc' = "TypeError"
    /\ UNCHANGED << allowed_appcodes, last_load, app_filter, records,
                    unique_records, appcode_counts, unique_record_list,
                    is_allowed_calls, result, chart_entries >>

NextUnit ==
    \/ UnitCalculateRiskPercentages
    \/ UnitCalculateRiskPercentagesByGroup
    \/ UnitGenerateChart
    \/ UnitSinkCall

SpecUnit == InitUnit /\ [][NextUnit]_vars

\* ---------------------------------------------------------------- claims
\* analyze_data has returned (main may have gone on from there).
Returned == pc \in {"returned", "exit_no_data", "report"}

returned_records == result[1]
returned_counts == result[2]

\* The AppCodes of the raw rows and of the returned records.
RawCodes == { records[i].app_code : i \in DOMAIN records }
ReturnedCodes == { returned_records[i].app_code : i \in DOMAIN returned_records }

\* Number of raw rows carrying the AppCode c.
RawCount(c) == Cardinality({ i \in DOMAIN records : records[i].app_code = c })

\* Index of the first raw row carrying the AppCode c.
FirstIndex(c) ==
    CHOOSE i \in DOMAIN records :
        /\ records[i].app_code = c
        /\ \A j \in 1..(i - 1) : records[j].app_code # c

\* The four columns a record was read with.
Columns(r) ==
    << r.application_service, r.app_code, r.composite_score, r.class_type >>

\* The AppCode c passes the service's filter, if it has one.
Survives(c) == app_filter = "None" \/ is_allowed(allowed_appcodes, c)

\* t is s with its leading and trailing whitespace removed, stated without
\* the strip operators: s is whitespace, then t, then whitespace, and t
\* neither starts nor ends with whitespace.
IsTrimOf(t, s) ==
    /\ t = <<>> \/ (t[1] \notin Whitespace /\ t[Len(t)] \notin Whitespace)
    /\ \E a \in 0..Len(s) :
          /\ a + Len(t) <= Len(s)
          /\ SubSeq(s, a + 1, a + Len(t)) = t
          /\ \A i \in (1..a) \cup ((a + Len(t) + 1)..Len(s)) : s[i] \in Whitespace

\* Identifiers is_allowed is asked about.
QueryCodes ==
    AppCodeValues \cup AppsFileValues
        \cup { <<>>, <<"\t", "B">>, <<" ", "B", " ">>, <<"A", "B">>, <<"A", " ", "B">> }

\* C1: analyze_data returns exactly one record per distinct raw AppCode that
\* survives filtering, and it is the first raw row carrying that AppCode.
C1_FirstOccurrenceWins ==
    Returned =>
        /\ \A c \in RawCodes :
              Cardinality({ i \in DOMAIN returned_records :
                              returned_records[i].app_code = c })
                  = IF Survives(c) THEN 1 ELSE 0
        /\ \A i \in DOMAIN returned_records :
              /\ returned_records[i].app_code \in RawCodes
              /\ Columns(returned_records[i]) =
                    Columns(records[FirstIndex(returned_records[i].app_code)])

\* C1 witness: a returned record whose AppCode a later raw row repeats with
\* another label.
C1_Witness ==
    /\ Returned
    /\ \E k \in DOMAIN returned_records : \E i, j \in DOMAIN records :
          /\ i < j
          /\ records[i].app_code = returned_records[k].app_code
          /\ records[j].app_code = returned_records[k].app_code
          /\ records[i].composite_score # records[j].composite_score

\* C2: total_infrastructure of every returned record is the number of raw
\* rows with its AppCode, the returned counts hold the same number, and it
\* is at least 1.
C2_CountsOverRawRows ==
    Returned =>
        \A i \in DOMAIN returned_records :
            LET r == returned_records[i]
            IN  /\ r.total_infrastructure = RawCount(r.app_code)
                /\ r.app_code \in DOMAIN returned_counts
                /\ returned_counts[r.app_code] = RawCount(r.app_code)
                /\ r.total_infrastructure >= 1

\* C2 witness: a returned record counted over several raw rows.
C2_Witness ==
    /\ Returned
    /\ \E i \in DOMAIN returned_records :
          /\ returned_records[i].total_infrastructure >= 2
          /\ Len(returned_records) >= 2

\* The pipeline ran with a filter whose allow-set is not empty.
FilterActive == app_filter = "filter" /\ allowed_appcodes # {}

\* C3 as stated: with a non-empty allow-set the returned AppCodes are exactly
\* the raw AppCodes that are members of the allow-set.
C3_ReturnedAreAllowSetMembers ==
    (Returned /\ FilterActive) =>
        ReturnedCodes = RawCodes \cap allowed_appcodes

\* C3 amended: with a non-empty allow-set the returned AppCodes are exactly
\* the raw AppCodes whose value with leading and trailing whitespace removed
\* is a member of the allow-set, each returned once.
C3_ReturnedAreTrimmedMatches ==
    (Returned /\ FilterActive) =>
        /\ ReturnedCodes =
              { c \in RawCodes : \E m \in allowed_appcodes : IsTrimOf(m, c) }
        /\ Cardinality(ReturnedCodes) = Len(returned_records)

\* C3 witness: the filter kept an AppCode written with whitespace and
\* dropped another one.
C3_Witness ==
    /\ Returned /\ FilterActive
    /\ \E c \in ReturnedCodes : c \notin allowed_appcodes
    /\ \E c \in RawCodes : c \notin ReturnedCodes

\* C4: the keys of the returned counts are the AppCodes of the returned
\* records, and enrichment never looks up a missing AppCode.
C4_CountKeysMatchRecords ==
    /\ pc # "KeyError"
    /\ Returned => DOMAIN returned_counts = ReturnedCodes

\* C4 witness: a filtered run that returned records and dropped an AppCode.
C4_Witness ==
    /\ Returned /\ FilterActive
    /\ returned_records # <<>>
    /\ \E c \in RawCodes : c \notin DOMAIN returned_counts

\* C5: is_allowed is True for every identifier when the allow-set is empty;
\* otherwise it is True exactly when the identifier with leading and
\* trailing whitespace removed is a member of the allow-set, whose members
\* are stored trimmed and non-empty.
C5_IsAllowedTrimmedMembership ==
    /\ \A m \in allowed_appcodes : m # <<>> /\ IsTrimOf(m, m)
    /\ \A c \in QueryCodes :
          is_allowed(allowed_appcodes, c) <=>
              \/ allowed_appcodes = {}
              \/ \E m \in allowed_appcodes : IsTrimOf(m, c)

\* C5 witness: a loaded, non-empty allow-set against which analyze_data's
\* is_allowed calls kept an AppCode written with whitespace and rejected
\* another AppCode.
C5_Witness ==
    /\ allowed_appcodes # {} /\ last_load = "loaded"
    /\ pc = "count" /\ is_allowed_calls > 0
    /\ \E i \in DOMAIN unique_records : unique_records[i].app_code = <<" ", "A">>
    /\ \E c \in RawCodes : ~is_allowed(allowed_appcodes, c)

\* C6: if the most recent load_allowed_appcodes call failed, is_allowed is
\* True for every identifier.
C6_FailedLoadAllowsAll ==
    last_load = "failed" => \A c \in QueryCodes : is_allowed(allowed_appcodes, c)

\* C7: main reports "no data to analyze" only when the raw read produced no
\* records; records read and all filtered out is a different outcome.
C7_NoDataOnlyWhenNothingRead ==
    pc = "exit_no_data" => records = <<>>

\* C8: when the raw read yields no records, analyze_data returns an empty
\* list and empty counts at once: no later step runs, is_allowed is never
\* called, no error is raised.
C8_EmptyReadShortCircuits ==
    (pc \notin {"init", "read"} /\ records = <<>>) =>
        /\ pc \in {"returned", "exit_no_data"}
        /\ result = << <<>>, NoCounts >>
        /\ is_allowed_calls = 0
        /\ unique_records = <<>>
        /\ unique_record_list = <<>>
        /\ appcode_counts = NoCounts

\* C8 witness: an empty read returned on a service with an active filter.
C8_Witness ==
    /\ pc = "returned" /\ records = <<>>
    /\ FilterActive

\* The weight table of C9, in tenths.
ExpectedWeight(label) ==
    CASE label = "High" -> 30
      [] label = "Moderate High" -> 25
      [] label = "Moderate" -> 20
      [] label = "Low" -> 10
      [] OTHER -> 0

\* analyze_data is past _enhance_records.
Enhanced == pc \in {"sort", "returned", "exit_no_data", "report"}

\* C9: the score number of every enhanced record is 3.0, 2.5, 2.0 or 1.0 for
\* High, Moderate High, Moderate, Low and 0.0 for any other label, and a
\* record with any other label has risk score 0.0 and percent 0.0.
C9_ScoreMapping ==
    Enhanced =>
        \A i \in DOMAIN unique_record_list :
            LET r == unique_record_list[i]
            IN  /\ r.composite_score_number = ExpectedWeight(r.composite_score)
                /\ r.composite_score \notin {"High", "Moderate High", "Moderate", "Low"}
                     => /\ r.composite_score_number = 0
                        /\ r.composite_risk_score = 0
                        /\ r.composite_risk_score_percent = [num |-> 0, den |-> 1]

\* C9 witness: a returned record with an unknown label counted over two raw
\* rows, beside a record with a positive risk score.
C9_Witness ==
    /\ Returned
    /\ \E i, j \in DOMAIN returned_records :
          /\ returned_records[i].composite_score = "Critical"
          /\ returned_records[i].total_infrastructure = 2
          /\ returned_records[j].composite_risk_score > 0

\* C10: every returned record has composite_risk_score =
\* composite_score_number * total_infrastructure, the number being the
\* weight of its own label and the total the count of its AppCode.
C10_RiskScoreIsWeightTimesCount ==
    Returned =>
        \A i \in DOMAIN returned_records :
            LET r == returned_records[i]
            IN  /\ r.composite_risk_score =
                      r.composite_score_number * r.total_infrastructure
                /\ r.composite_score_number = map_to_number(r.composite_score)
                /\ r.total_infrastructure = returned_counts[r.app_code]

\* C10 witness: a returned record with weight 2.5 counted twice, score 5.0.
C10_Witness ==
    /\ Returned
    /\ \E i \in DOMAIN returned_records :
          /\ returned_records[i].composite_score_number = 25
          /\ returned_records[i].total_infrastructure = 2
          /\ returned_records[i].composite_risk_score = 50

\* The percentages of a list add up to 100: with D the product of the
\* denominators, the numerators scaled to D add up to 100 * D.
RECURSIVE DenProduct(_)
DenProduct(recs) ==
    IF recs = <<>> THEN 1
    ELSE Head(recs).composite_risk_score_percent.den * DenProduct(Tail(recs))

RECURSIVE ScaledPercentSum(_, _)
ScaledPercentSum(recs, D) ==
    IF recs = <<>> THEN 0
    ELSE Head(recs).composite_risk_score_percent.num
             * (D \div Head(recs).composite_risk_score_percent.den)
         + ScaledPercentSum(Tail(recs), D)

PercentZero == [num |-> 0, den |-> 1]

\* C11: when the total risk of the returned records is not zero, each
\* record's percent is its risk score over that total times 100, the total
\* being taken over the returned records, and the percentages sum to 100.
C11_GlobalPercentagesSumTo100 ==
    (Returned /\ SumRisk(returned_records) # 0) =>
        /\ \A i \in DOMAIN returned_records :
              LET r == returned_records[i]
              IN  /\ r.composite_risk_score_percent.den > 0
                  /\ r.composite_risk_score_percent.num * SumRisk(returned_records)
                        = r.composite_risk_score * 100
                            * r.composite_risk_score_percent.den
        /\ ScaledPercentSum(returned_records, DenProduct(returned_records))
              = 100 * DenProduct(returned_records)

\* C11 witness: a filtered run that dropped an AppCode and returned two
\* records with different non-zero shares.
C11_Witness ==
    /\ Returned /\ FilterActive
    /\ \E c \in RawCodes : c \notin ReturnedCodes
    /\ \E i, j \in DOMAIN returned_records :
          /\ returned_records[i].composite_risk_score > 0
          /\ returned_records[j].composite_risk_score
                > returned_records[i].composite_risk_score

\* C12: when the total risk of a list is 0, calculate_risk_percentages sets
\* every percent to 0.0, whatever it was before, and raises no error.
C12_ZeroTotalSetsAllZero ==
    (pc = "unit_percentages" /\ SumRisk(records) = 0) =>
        /\ Len(unique_record_list) = Len(records)
        /\ \A i \in DOMAIN unique_record_list :
              /\ unique_record_list[i].composite_risk_score_percent = PercentZero
              /\ unique_record_list[i].composite_risk_score = 0

\* C12 witness: a list of zero total risk holding a record whose percent was
\* 50 before the call.
C12_Witness ==
    /\ pc = "unit_percentages" /\ SumRisk(records) = 0
    /\ Len(records) >= 2
    /\ \E i \in DOMAIN records :
          /\ records[i].composite_risk_score_percent # PercentZero
          /\ unique_record_list[i].composite_risk_score_percent = PercentZero

\* Total risk of the records of recs with the severity label.
RECURSIVE GroupRisk(_, _)
GroupRisk(recs, label) ==
    IF recs = <<>> THEN 0
    ELSE (IF Head(recs).composite_score = label
          THEN Head(recs).composite_risk_score ELSE 0)
         + GroupRisk(Tail(recs), label)

\* C13: calculate_risk_percentages_by_group sets each record's percent to
\* its risk score over the total of the records with its own label times
\* 100, or to 0.0 when that total is 0.
C13_GroupedPercentages ==
    pc \in {"unit_by_group", "AttributeError"} =>
        /\ pc = "unit_by_group"
        /\ \A i \in DOMAIN unique_record_list :
              LET r == unique_record_list[i]
                  g == GroupRisk(unique_record_list, r.composite_score)
              IN  r.composite_risk_score_percent =
                      IF g > 0 THEN percent_of(r.composite_risk_score, g)
                      ELSE PercentZero

\* Bijections of 1..n.
Perms(n) == { p \in [1..n -> 1..n] : \A i, j \in 1..n : i # j => p[i] # p[j] }

\* The chart entry e carries the identifier, risk score and percent of r.
EntryOf(e, r) ==
    /\ e.app_code = r.app_code
    /\ e.composite_risk_score = r.composite_risk_score
    /\ e.composite_risk_score_percent = r.composite_risk_score_percent

\* C14: generate_chart returns one entry per input record, the entries'
\* values being a permutation of the records', and the entry at position k
\* has rank k.
C14_ChartDenseRanks ==
    pc = "unit_chart" =>
        /\ Len(chart_entries) = Len(unique_record_list)
        /\ \A k \in DOMAIN chart_entries : chart_entries[k].rank = k
        /\ \E p \in Perms(Len(unique_record_list)) :
              \A k \in DOMAIN chart_entries :
                  EntryOf(chart_entries[k], unique_record_list[p[k]])

\* C14 witness: a chart of three entries, two of them tied, whose first
\* entry is not the first record.
C14_Witness ==
    /\ pc = "unit_chart" /\ Len(chart_entries) = 3
    /\ chart_entries[2].composite_risk_score_percent
          = chart_entries[3].composite_risk_score_percent
    /\ chart_entries[1].app_code # unique_record_list[1].app_code

\* C15: in the chart the percent does not increase from one rank to the
\* next, and entries of equal percent are in the order of their records in
\* the input list.
C15_ChartSortedStable ==
    pc = "unit_chart" =>
        /\ \A k \in 1..(Len(chart_entries) - 1) :
              ~pct_lt(chart_entries[k].composite_risk_score_percent,
                      chart_entries[k + 1].composite_risk_score_percent)
        /\ \E p \in Perms(Len(unique_record_list)) :
              /\ \A k \in DOMAIN chart_entries :
                    EntryOf(chart_entries[k], unique_record_list[p[k]])
              /\ \A k, l \in DOMAIN chart_entries :
                    (k < l /\ chart_entries[k].composite_risk_score_percent
                                = chart_entries[l].composite_risk_score_percent)
                        => p[k] < p[l]

\* C15 witness: two tied records that differ, in input order in the chart,
\* behind a record of higher percent that came after them in the input.
C15_Witness ==
    /\ pc = "unit_chart" /\ Len(unique_record_list) = 3
    /\ unique_record_list[1].composite_risk_score_percent
          = unique_record_list[2].composite_risk_score_percent
    /\ unique_record_list[1].app_code # unique_record_list[2].app_code
    /\ pct_lt(unique_record_list[2].composite_risk_score_percent,
              unique_record_list[3].composite_risk_score_percent)
    /\ chart_entries[2].app_code = unique_record_list[1].app_code
    /\ chart_entries[3].app_code = unique_record_list[2].app_code

\* C16: each chart entry carries the service name and the severity weight
\* of the record it was built from.
C16_EntryCarriesServiceAndWeight ==
    pc = "unit_chart" =>
        \A k \in DOMAIN chart_entries :
            /\ {"application_service", "composite_score_number"}
                  \subseteq DOMAIN chart_entries[k]
            /\ \E i \in DOMAIN unique_record_list :
                  /\ EntryOf(chart_entries[k], unique_record_list[i])
                  /\ chart_entries[k].application_service
                        = unique_record_list[i].application_service
                  /\ chart_entries[k].composite_score_number
                        = unique_record_list[i].composite_score_number

\* C17: the list analyze_data returns is in strictly ascending order of
\* AppCode.
C17_ReturnedSortedByAppCode ==
    Returned =>
        \A i, j \in DOMAIN returned_records :
            i < j => str_lt(returned_records[i].app_code,
                            returned_records[j].app_code)

\* C17 witness: a returned list whose first record was not the first one
\* kept.
C17_Witness ==
    /\ Returned /\ Len(returned_records) >= 2
    /\ Len(unique_records) = Len(returned_records)
    /\ unique_records[1].app_code # returned_records[1].app_code

\* The field names of the file written, as a set.
WrittenFields == { written.fieldnames[i] : i \in DOMAIN written.fieldnames }
AllFields == { to_dict_keys[i] : i \in DOMAIN to_dict_keys }

\* C18: write_data and save_enhanced_data called with exclude_appcode=True
\* write every field except AppCode, called without it all fields, and one
\* row per record in both cases.
C18_ExcludeAppcodeFlag ==
    (sink_call.callee # "none" /\ unique_record_list # <<>>) =>
        /\ pc = "unit_written"
        /\ written.exists
        /\ Len(written.rows) = Len(unique_record_list)
        /\ WrittenFields =
              IF "exclude_appcode" \in sink_call.kwargs
              THEN AllFields \ {"AppCode"} ELSE AllFields

\* C19: when analyze_data returns records, main generates the report and
\* the chart, saves the data without the AppCode column, displays the
\* sample and ends normally; no step aborts the run.
C19_MainRunsToCompletion ==
    /\ pc # "TypeError"
    /\ pc = "done" =>
          /\ Len(chart_entries) = Len(returned_records)
          /\ written.exists
          /\ "AppCode" \notin WrittenFields

\* What analyze_data computes from the raw records when nothing is
\* filtered.
UnfilteredResult(recs) ==
    IF recs = <<>> THEN << <<>>, NoCounts >>
    ELSE LET counts == count_appcodes(recs)
         IN  << sort_by_app_code(enhance_records(unique_by_app_code(recs), counts)),
                counts >>

\* C20: a service built with app_filter=None and a service whose filter has
\* an empty allow-set return the same result for the same raw input, the
\* counts covering every distinct raw AppCode.
C20_EmptyAllowSetSameAsNoFilter ==
    (Returned /\ (app_filter = "None" \/ allowed_appcodes = {})) =>
        /\ result = UnfilteredResult(records)
        /\ DOMAIN returned_counts = RawCodes

\* C20 witness: a run whose filter holds an empty allow-set after a failed
\* load, is_allowed having been asked, with two records returned.
C20_Witness ==
    /\ Returned /\ app_filter = "filter" /\ allowed_appcodes = {}
    /\ last_load = "failed"
    /\ is_allowed_calls > 0
    /\ Len(returned_records) >= 2

\* analyze_data has returned, whatever main did afterwards.
HasReturned ==
    pc \in {"returned", "exit_no_data", "report", "save", "TypeError", "done"}

\* C21: every record analyze_data returns has a percentage between 0 and
\* 100 inclusive, a risk score of at least 0 and a score number of at least
\* 0, whatever the raw rows and whatever the filter.
C21_ReturnedFieldsInRange ==
    HasReturned =>
        \A i \in DOMAIN returned_records :
            LET r == returned_records[i]
                p == r.composite_risk_score_percent
            IN  /\ p.den > 0
                /\ 0 <= p.num
                /\ p.num <= 100 * p.den
                /\ r.composite_risk_score >= 0
                /\ r.composite_score_number >= 0

\* C21 witness: a filtered run returning one record with a percentage
\* strictly between 0 and 100 and another with a larger share.
C21_Witness ==
    /\ HasReturned /\ FilterActive
    /\ \E i, j \in DOMAIN returned_records :
          LET p == returned_records[i].composite_risk_score_percent
              q == returned_records[j].composite_risk_score_percent
          IN  /\ 0 < p.num /\ p.num < 100 * p.den
              /\ pct_lt(p, q)
              /\ returned_records[i].composite_risk_score > 0

\* C22: generate_full_report, which calls generate_chart on the records
\* analyze_data returned, changes no field of any of those records and
\* leaves the caller's list in its order; the chart is a list of its own
\* with one entry per record.
C22_ChartLeavesRecordsAlone ==
    [][ pc = "report" =>
            /\ result' = result
            /\ unique_record_list' = unique_record_list
            /\ Len(chart_entries') = Len(returned_records) ]_vars

\* C22 witness: the chart has been generated and is ordered differently
\* from the record list, which is still in AppCode order.
C22_Witness ==
    /\ pc = "save"
    /\ Len(returned_records) >= 2
    /\ Len(chart_entries) = Len(returned_records)
    /\ chart_entries[1].app_code # returned_records[1].app_code
    /\ str_lt(returned_records[1].app_code, returned_records[2].app_code)

\* The filter has been applied (or skipped, when there is none).
Filtered == pc \notin {"init", "read", "dedup", "filter"}

\* The raw rows whose AppCode passes the filter of the run.
AllowedRawRows ==
    IF app_filter # "None" THEN filter_records(records, allowed_appcodes)
    ELSE records

\* C23: deduplicating and then filtering, as analyze_data does, leaves the
\* records that filtering the raw rows and then deduplicating would leave;
\* each kept record is the first raw row of its AppCode, whatever rows of
\* other AppCodes stand before or between.
C23_DedupAndFilterCommute ==
    Filtered =>
        /\ unique_records = unique_by_app_code(AllowedRawRows)
        /\ \A i \in DOMAIN unique_records :
              /\ Survives(unique_records[i].app_code)
              /\ unique_records[i] = records[FirstIndex(unique_records[i].app_code)]

\* C23 witness: with a non-empty allow-set, a row of a disallowed AppCode
\* stands between two different rows of one allowed AppCode, and a record
\* was kept.
C23_Witness ==
    /\ Filtered /\ FilterActive
    /\ unique_records # <<>>
    /\ \E i, j, k \in DOMAIN records :
          /\ i < j /\ j < k
          /\ records[i].app_code = records[k].app_code
          /\ records[i] # records[k]
          /\ Survives(records[i].app_code)
          /\ ~Survives(records[j].app_code)

\* The distinct raw AppCodes whose stripped form is in the allow-set.
AllowedRawCodes == { c \in RawCodes : strip(c) \in allowed_appcodes }

\* C24 as claimed: with a non-empty allow-set no two returned records have
\* AppCodes that are equal after stripping, and there are at most as many
\* returned records as allow-set members.
C24_OnePerAllowSetMember ==
    (HasReturned /\ FilterActive) =>
        /\ \A i, j \in DOMAIN returned_records :
              strip(returned_records[i].app_code) = strip(returned_records[j].app_code)
                  => i = j
        /\ Len(returned_records) <= Cardinality(allowed_appcodes)

\* C24 as amended: with a non-empty allow-set no two returned records have
\* the same AppCode as read, each returned AppCode is in the allow-set once
\* stripped, so there are at most as many returned records as distinct raw
\* AppCodes that strip to an allow-set member; where no two raw AppCodes
\* differ only in surrounding whitespace, that is at most the size of the
\* allow-set.
C24_OnePerRawIdentifier ==
    (HasReturned /\ FilterActive) =>
        /\ \A i, j \in DOMAIN returned_records :
              returned_records[i].app_code = returned_records[j].app_code => i = j
        /\ \A i \in DOMAIN returned_records :
              strip(returned_records[i].app_code) \in allowed_appcodes
        /\ Len(returned_records) <= Cardinality(AllowedRawCodes)
        /\ (\A c, d \in RawCodes : strip(c) = strip(d) => c = d)
              => Len(returned_records) <= Cardinality(allowed_appcodes)

\* C24 witness: with a non-empty allow-set, two records are returned whose
\* AppCodes differ as read and are equal once stripped, more records than
\* the allow-set has members.
C24_Witness ==
    /\ HasReturned /\ FilterActive
    /\ \E i, j \in DOMAIN returned_records :
          /\ i # j
          /\ strip(returned_records[i].app_code) = strip(returned_records[j].app_code)
    /\ Len(returned_records) > Cardinality(allowed_appcodes)

\* generate_full_report has generated the chart.
ChartGenerated == pc \in {"save", "TypeError", "done"}

\* C25: in a run of analyze_data followed by generate_full_report, chart
\* entries of equal percentage stand in ascending AppCode order, whatever
\* the order of their rows in the raw input.
C25_ChartTiesInAppCodeOrder ==
    ChartGenerated =>
        \A i, j \in DOMAIN chart_entries :
            ( /\ i < j
              /\ chart_entries[i].composite_risk_score_percent =
                    chart_entries[j].composite_risk_score_percent )
                => str_lt(chart_entries[i].app_code, chart_entries[j].app_code)

\* C25 witness: the chart has two entries of the same non-zero percentage
\* whose rows came in the opposite order in the raw input.
C25_Witness ==
    /\ ChartGenerated
    /\ \E i, j \in DOMAIN chart_entries :
          /\ i < j
          /\ chart_entries[i].composite_risk_score_percent =
                chart_entries[j].composite_risk_score_percent
          /\ chart_entries[i].composite_risk_score_percent.num > 0
          /\ FirstIndex(chart_entries[j].app_code) <
                FirstIndex(chart_entries[i].app_code)

====
